---------------------------- MODULE Spec2Model ----------------------------
(***************************************************************************)
(* A model of src/app.js, the vocabulary application: the record store     *)
(* (IndexedDB object store "words"), the migration normalizer, the review  *)
(* scheduler and review session, the sorted / filtered / paginated view    *)
(* cache, and the backup synchronizer (debounce timer, permission check,   *)
(* in-flight / pending coalescing).                                        *)
(*                                                                         *)
(* The program is single threaded.  An async function runs until its next  *)
(* real suspension (a store transaction, a permission prompt, a file       *)
(* write); every such suspension is a position of the model, and one       *)
(* action is one run of code between two suspensions.  The awaits on       *)
(* already-resolved promises (openDB after init, renderWordListPage) end   *)
(* in the same microtask checkpoint and are not positions.                 *)
(***************************************************************************)
EXTENDS Integers, Sequences, FiniteSets, TLC

VARIABLES
  now,                  \* Date.now(), in clock ticks
  store,                \* the rows of the object store "words"
  nextId,               \* the store's key generator (autoIncrement)
  metaHandle,           \* appMeta holds a backupFileHandle entry
  txq,                  \* transactions on "words" not yet complete, oldest first
  initPc,               \* where init() is suspended
  words,                \* state.words
  filteredWords,        \* state.filteredWords
  sortedWordsCache,     \* state.sortedWordsCache
  sortedWordsCacheKey,  \* state.sortedWordsCacheKey
  wordsVersion,         \* state.wordsVersion
  searchTerm,           \* state.searchTerm
  currentPage,          \* state.currentPage
  pageSize,             \* state.pageSize
  sortBy,               \* state.sortBy
  rendered,             \* the rows shown in els.wordList
  reviewPool,           \* state.reviewPool
  reviewOpen,           \* els.reviewOverlay is not hidden
  buttonsEnabled,       \* showMeaningBtn / knownBtn / unknownBtn are not disabled
  meaningShown,         \* els.reviewMeaning is not hidden
  timers,               \* the armed setTimeout timers of scheduleAutoBackup
  backupInFlight,       \* state.backupInFlight
  pendingBackupReason,  \* state.pendingBackupReason
  backupHandle,         \* state.backupHandle is set
  tasks,                \* runs of ensureBackupPermission / linkBackupFile in progress
  writers,              \* runs of backupToLinkedFile between createWritable and close
  file,                 \* the content of the linked backup file
  hist                  \* history: what the last step did, and counts of the run

(***************************************************************************)
(* Bounds of the model.                                                    *)
(***************************************************************************)
MaxVersion == 4       \* wordsVersion never exceeds this (caps the run length)
MaxInFlight == 2      \* store transactions queued at once
DayLen == 2           \* clock ticks in one calendar day
MaxTime == 5         \* the clock stops here
MaxTasks == 2         \* permission checks in progress at once
MaxRequests == 3      \* backup triggers in one run
MaxBackupEdits == 1    \* edits of the record set in a run of SpecBackup
MaxDebounceEdits == 2  \* edits of the record set in a run of SpecDebounce
MaxDebounceRequests == 2 \* backup requests in a run of SpecDebounce
MaxRecords == 2        \* records in the store in a run of SpecReview
MaxStored == 3         \* ids given out before the last edit of a run of SpecFailure
MaxListEdits == 1      \* edits of the record set in a run of SpecList
MaxDateValue == 200    \* the largest time value a Date holds, in clock ticks

(***************************************************************************)
(* Program constants.                                                      *)
(***************************************************************************)
DEFAULT_PAGE_SIZE == 100
MAX_PAGE_SIZE == 200

None == "none"        \* null / undefined
EmptyKey == <<>>      \* the cache key ''

(***************************************************************************)
(* Text.  A string is a sequence of characters; " " is whitespace.         *)
(***************************************************************************)
IsSpace(c) == c = " "

RECURSIVE TrimStart(_)
TrimStart(s) ==
  IF s = <<>> THEN <<>>
  ELSE IF IsSpace(Head(s)) THEN TrimStart(Tail(s)) ELSE s

RECURSIVE TrimEnd(_)
TrimEnd(s) ==
  IF s = <<>> THEN <<>>
  ELSE IF IsSpace(s[Len(s)]) THEN TrimEnd(SubSeq(s, 1, Len(s) - 1)) ELSE s

\* String.prototype.trim
Trim(s) == TrimEnd(TrimStart(s))

LowerChar(c) ==
  CASE c = "A" -> "a" [] c = "B" -> "b" [] c = "M" -> "m" [] OTHER -> c

\* String.prototype.toLowerCase
ToLower(s) == [i \in 1..Len(s) |-> LowerChar(s[i])]

\* norm(v): String(v || '').trim().toLowerCase()
norm(v) == ToLower(Trim(v))

\* String.prototype.includes
Includes(hay, needle) ==
  \E i \in 0..(Len(hay) - Len(needle)) :
     SubSeq(hay, i + 1, i + Len(needle)) = needle

CharRank(c) == CASE c = " " -> 0 [] c = "a" -> 1 [] c = "b" -> 2 [] c = "m" -> 3
                 [] OTHER -> 4

\* a.localeCompare(b, undefined, {sensitivity: 'base'}): case is ignored
RECURSIVE LocaleCompareBase(_, _)
LocaleCompareBase(a, b) ==
  IF a = <<>> /\ b = <<>> THEN 0
  ELSE IF a = <<>> THEN -1
  ELSE IF b = <<>> THEN 1
  ELSE LET x == CharRank(LowerChar(Head(a)))
           y == CharRank(LowerChar(Head(b)))
       IN IF x < y THEN -1 ELSE IF x > y THEN 1
          ELSE LocaleCompareBase(Tail(a), Tail(b))

(***************************************************************************)
(* Clock and calendar.  Date.now() is the variable now; a day has DayLen   *)
(* ticks and local midnight is the last multiple of DayLen.                *)
(***************************************************************************)
Max(a, b) == IF a >= b THEN a ELSE b
Min(a, b) == IF a <= b THEN a ELSE b

\* next.setHours(0, 0, 0, 0)
StartOfDay(t) == t - (t % DayLen)

\* A field that is missing, null or NaN holds NotFinite; every other number
\* of the model is a finite integer.
NotFinite == -1000

\* Number.isFinite(x)
IsFinite(x) == x # NotFinite

\* getNextReviewAt(intervalDays), read at clock value t: setDate past the
\* range of Date leaves an invalid date, whose getTime() is NaN
getNextReviewAt(intervalDays, t) ==
  IF StartOfDay(t) + intervalDays * DayLen > MaxDateValue
  THEN NotFinite
  ELSE StartOfDay(t) + intervalDays * DayLen

\* Math.round(x * 2) for the (integer) intervals of the model
RoundTimes2(x) == 2 * x

(***************************************************************************)
(* Records.  example is carried by the program but read by no condition    *)
(* and is left out of the rows.                                            *)
(***************************************************************************)
Row(id, word, meaning, createdAt, reviewCount, interval, nextReviewAt, lastReviewedAt) ==
  [id |-> id, word |-> word, meaning |-> meaning, createdAt |-> createdAt,
   reviewCount |-> reviewCount, interval |-> interval,
   nextReviewAt |-> nextReviewAt, lastReviewedAt |-> lastReviewedAt]

\* a variant of migrationRow whose default interval is 0
migrationRowZeroInterval(row, t) ==
  [row EXCEPT
     !.createdAt = IF ~IsFinite(row.createdAt) \/ row.createdAt <= 0 THEN t ELSE @,
     !.reviewCount = IF ~IsFinite(row.reviewCount) \/ row.reviewCount < 0 THEN 0 ELSE @,
     !.interval = IF ~IsFinite(row.interval) \/ row.interval < 1 THEN 0 ELSE @,
     !.nextReviewAt = IF ~IsFinite(row.nextReviewAt) \/ row.nextReviewAt <= 0 THEN t ELSE @,
     !.lastReviewedAt = IF ~IsFinite(row.lastReviewedAt) \/ row.lastReviewedAt < 0 THEN 0 ELSE @]

\* migrationDefaults(row, now).row
migrationRow(row, t) ==
  [row EXCEPT
     !.createdAt = IF ~IsFinite(row.createdAt) \/ row.createdAt <= 0 THEN t ELSE @,
     !.reviewCount = IF ~IsFinite(row.reviewCount) \/ row.reviewCount < 0 THEN 0 ELSE @,
     !.interval = IF ~IsFinite(row.interval) \/ row.interval < 1 THEN 1 ELSE @,
     !.nextReviewAt = IF ~IsFinite(row.nextReviewAt) \/ row.nextReviewAt <= 0 THEN t ELSE @,
     !.lastReviewedAt = IF ~IsFinite(row.lastReviewedAt) \/ row.lastReviewedAt < 0 THEN 0 ELSE @]

\* migrationDefaults(row, now).changed
migrationChanged(row, t) ==
  \/ ~IsFinite(row.createdAt) \/ row.createdAt <= 0
  \/ ~IsFinite(row.reviewCount) \/ row.reviewCount < 0
  \/ ~IsFinite(row.interval) \/ row.interval < 1
  \/ ~IsFinite(row.nextReviewAt) \/ row.nextReviewAt <= 0
  \/ ~IsFinite(row.lastReviewedAt) \/ row.lastReviewedAt < 0

migrationDefaults(row, t) ==
  [row |-> migrationRow(row, t), changed |-> migrationChanged(row, t)]

(***************************************************************************)
(* The object store "words": a set of rows with distinct ids.              *)
(***************************************************************************)
\* IDBObjectStore.getAll(): the rows in key order
RECURSIVE getAllRows(_)
getAllRows(S) ==
  IF S = {} THEN <<>>
  ELSE LET m == CHOOSE r \in S : \A q \in S : r.id <= q.id
       IN <<m>> \o getAllRows(S \ {m})

\* IDBObjectStore.add(row): the key generator assigns the id
StoreAdd(S, row, id) == S \cup {[row EXCEPT !.id = id]}

\* IDBObjectStore.put(row): insert, or replace the row of the same id
StorePut(S, row) == {r \in S : r.id # row.id} \cup {row}

\* putWords(rows): one transaction that puts every row
RECURSIVE StorePutAll(_, _)
StorePutAll(S, rows) ==
  IF rows = <<>> THEN S ELSE StorePutAll(StorePut(S, Head(rows)), Tail(rows))

\* IDBObjectStore.delete(id)
StoreDelete(S, id) == {r \in S : r.id # id}

\* migrateWordsIfNeeded: migratedRows
migratedRows(rows, t) == [i \in 1..Len(rows) |-> migrationRow(rows[i], t)]

\* migrateWordsIfNeeded: changedRows
changedRows(rows, t) ==
  SelectSeq(migratedRows(rows, t),
            LAMBDA m : \E i \in 1..Len(rows) :
                          rows[i].id = m.id /\ migrationChanged(rows[i], t))

NoRow == Row(0, <<>>, <<>>, 0, 0, 0, 0, 0)

\* a transaction on "words" waiting to complete and the handler it resumes
\* (caller), with the locals of that handler: row (the row added, put or
\* deleted), rows and changed (migrateWordsIfNeeded), for reviewStep
\* current, isKnown and now, and for importBackup entries (its rows), rest
\* (the entries the loop has not reached), existing and inserted; added is
\* history: the ids the store gave to the rows this import inserted
Tx(kind, caller, row) ==
  [kind |-> kind, caller |-> caller, row |-> row, rows |-> <<>>,
   changed |-> <<>>, current |-> NoRow, isKnown |-> FALSE, at |-> 0,
   entries |-> <<>>, rest |-> <<>>, existing |-> {}, inserted |-> 0,
   added |-> {}]

(***************************************************************************)
(* The view: search filter, sort, cache, pagination.  The operators take   *)
(* and return the part of state they work on, as a record v.               *)
(***************************************************************************)
View ==
  [words |-> words, filteredWords |-> filteredWords,
   sortedWordsCache |-> sortedWordsCache,
   sortedWordsCacheKey |-> sortedWordsCacheKey,
   wordsVersion |-> wordsVersion, searchTerm |-> searchTerm,
   currentPage |-> currentPage, pageSize |-> pageSize, sortBy |-> sortBy,
   rendered |-> rendered]

SetView(v) ==
  /\ words' = v.words
  /\ filteredWords' = v.filteredWords
  /\ sortedWordsCache' = v.sortedWordsCache
  /\ sortedWordsCacheKey' = v.sortedWordsCacheKey
  /\ wordsVersion' = v.wordsVersion
  /\ searchTerm' = v.searchTerm
  /\ currentPage' = v.currentPage
  /\ pageSize' = v.pageSize
  /\ sortBy' = v.sortBy
  /\ rendered' = v.rendered

viewVars ==
  <<words, filteredWords, sortedWordsCache, sortedWordsCacheKey, wordsVersion,
    searchTerm, currentPage, pageSize, sortBy, rendered>>

\* x || y on numbers
OrElse(x, y) == IF x # 0 /\ x # NotFinite THEN x ELSE y

RowMatches(row, t) == Includes(norm(row.word), t) \/ Includes(norm(row.meaning), t)

applySearch(v) ==
  LET t == norm(v.searchTerm)
  IN [v EXCEPT
        !.filteredWords =
           IF t # <<>> THEN SelectSeq(v.words, LAMBDA row : RowMatches(row, t))
           ELSE <<>>,
        !.currentPage = 1,
        !.sortedWordsCacheKey = EmptyKey]

\* a variant of getPageCount that rounds down
getPageCountFloor(totalItems, ps) == Max(1, totalItems \div ps)

\* getPageCount(totalItems), with state.pageSize = ps
getPageCount(totalItems, ps) == Max(1, (totalItems + ps - 1) \div ps)

\* a variant of compareWords that breaks ties oldest first
compareWordsTiesOldest(a, b, mode) ==
  CASE mode = "oldest" -> a.createdAt - b.createdAt
    [] mode = "mostReviewed" ->
         OrElse(OrElse(b.reviewCount, 0) - OrElse(a.reviewCount, 0),
                a.createdAt - b.createdAt)
    [] mode = "leastReviewed" ->
         OrElse(OrElse(a.reviewCount, 0) - OrElse(b.reviewCount, 0),
                a.createdAt - b.createdAt)
    [] mode = "alphabetical" ->
         OrElse(LocaleCompareBase(a.word, b.word), a.createdAt - b.createdAt)
    [] OTHER -> b.createdAt - a.createdAt

\* compareWords(a, b), with state.sortBy = mode
compareWords(a, b, mode) ==
  CASE mode = "oldest" -> a.createdAt - b.createdAt
    [] mode = "mostReviewed" ->
         OrElse(OrElse(b.reviewCount, 0) - OrElse(a.reviewCount, 0),
                b.createdAt - a.createdAt)
    [] mode = "leastReviewed" ->
         OrElse(OrElse(a.reviewCount, 0) - OrElse(b.reviewCount, 0),
                b.createdAt - a.createdAt)
    [] mode = "alphabetical" ->
         OrElse(LocaleCompareBase(a.word, b.word), b.createdAt - a.createdAt)
    [] OTHER -> b.createdAt - a.createdAt

\* Array.prototype.sort(compareWords): a stable sort
RECURSIVE InsertSorted(_, _, _)
InsertSorted(x, s, mode) ==
  IF s = <<>> THEN <<x>>
  ELSE IF compareWords(Head(s), x, mode) <= 0
       THEN <<Head(s)>> \o InsertSorted(x, Tail(s), mode)
       ELSE <<x>> \o s

RECURSIVE SortFrom(_, _, _)
SortFrom(s, acc, mode) ==
  IF s = <<>> THEN acc
  ELSE SortFrom(Tail(s), InsertSorted(Head(s), acc, mode), mode)

SortWords(s, mode) == SortFrom(s, <<>>, mode)

getActiveSource(v) == IF v.searchTerm # <<>> THEN v.filteredWords ELSE v.words

CacheKey(v) == <<v.wordsVersion, v.sortBy, v.pageSize, norm(v.searchTerm)>>

\* getSortedWordsForRender: the state after the call; the result is its cache
getSortedWordsForRender(v) ==
  IF v.sortedWordsCacheKey = CacheKey(v) THEN v
  ELSE [v EXCEPT !.sortedWordsCache = SortWords(getActiveSource(v), v.sortBy),
                 !.sortedWordsCacheKey = CacheKey(v)]

\* Array.prototype.slice(from, to) with 0 <= from
Slice(s, from, to) == SubSeq(s, from + 1, Min(to, Len(s)))

renderWordListPage(v) ==
  LET v1 == getSortedWordsForRender(v)
      sorted == v1.sortedWordsCache
      totalItems == Len(sorted)
      pageCount == getPageCount(totalItems, v1.pageSize)
      page == IF v1.currentPage > pageCount THEN pageCount ELSE v1.currentPage
      offset == (page - 1) * v1.pageSize
  IN [v1 EXCEPT
        !.currentPage = page,
        !.rendered = IF totalItems = 0 THEN <<>>
                     ELSE Slice(sorted, offset, offset + v1.pageSize)]

\* getDueWords: NaN <= now is false
getDueWords(ws, t) ==
  SelectSeq(ws, LAMBDA row : IsFinite(row.nextReviewAt) /\ row.nextReviewAt <= t)

\* reloadWords, from the rows migrateWordsIfNeeded returned
reloadFinish(v, rows) ==
  renderWordListPage(applySearch(
    [v EXCEPT !.words = rows,
              !.wordsVersion = v.wordsVersion + 1,
              !.sortedWordsCacheKey = EmptyKey]))

(***************************************************************************)
(* The backup synchronizer.                                                *)
(***************************************************************************)
\* asBackupArray(rows), with Date.now() = t
asBackupArray(rows, t) ==
  [i \in 1..Len(rows) |->
     [id |-> rows[i].id, word |-> rows[i].word, meaning |-> rows[i].meaning,
      createdAt |-> rows[i].createdAt,
      reviewCount |-> OrElse(rows[i].reviewCount, 0),
      interval |-> OrElse(rows[i].interval, 1),
      nextReviewAt |-> OrElse(rows[i].nextReviewAt, t),
      lastReviewedAt |-> OrElse(rows[i].lastReviewedAt, 0)]]

\* a variant of clearBackupTimer that cancels nothing
clearNothing(ts) == ts

\* clearTimeout(state.backupTimer): the timer state.backupTimer names is the
\* one marked cur; a timer that already fired is no longer in the set
clearBackupTimer(ts) == {t \in ts : ~t.cur}

\* scheduleAutoBackup(reason): the armed timers after the call
scheduleAutoBackup(ts, reason) ==
  {[t EXCEPT !.cur = FALSE] : t \in clearBackupTimer(ts)}
    \cup {[reason |-> reason, cur |-> TRUE]}

\* a run of ensureBackupPermission (or of linkBackupFile's setMeta) in progress
Task(pc, reason) == [pc |-> pc, reason |-> reason]
IdleTask == Task("idle", None)
TaskIds == 1..MaxTasks
FreeTask(ts) == \E i \in TaskIds : ts[i] = IdleTask
Spawn(ts, pc, reason) ==
  LET i == CHOOSE j \in TaskIds : ts[j] = IdleTask /\ \A k \in 1..(j - 1) : ts[k] # IdleTask
  IN [ts EXCEPT ![i] = Task(pc, reason)]

\* the part of state backupToLinkedFile works on
BackupState ==
  [inFlight |-> backupInFlight, pending |-> pendingBackupReason,
   writers |-> writers]

\* a write between createWritable() and close(); origin and validated are
\* history: how the write was started ("direct": by the caller of
\* ensureBackupPermission, "followup": by the microtask of the finally block),
\* and whether ensureBackupPermission returned true between the end of the
\* write before it and its start
Writer(reason, data, origin, validated) ==
  [reason |-> reason, data |-> data, stage |-> "createWritable",
   origin |-> origin, validated |-> validated]

\* a variant of pendingAfter that forgets the request
pendingDropped(old, reason) == None

\* a variant of pendingAfter that keeps the first pending reason
pendingKeepsFirst(old, reason) == IF old # None THEN old ELSE reason

\* the reason left pending by a request that finds a write in flight
pendingAfter(old, reason) == reason

\* a variant of mayStartWrite without the test of state.backupInFlight
mayStartWriteAlways(b) == TRUE

\* a request may start its write
mayStartWrite(b) == ~b.inFlight

\* backupToLinkedFile(reason) up to its first await
backupToLinkedFile(b, handle, reason, ws, t, origin, validated) ==
  IF ~handle THEN b
  ELSE IF ~mayStartWrite(b)
  THEN [b EXCEPT !.pending = pendingAfter(b.pending, reason)]
  ELSE [b EXCEPT !.inFlight = TRUE,
                 !.writers = Append(@, Writer(reason, asBackupArray(ws, t),
                                              origin, validated))]

\* a variant of inFlightAfterWrite that clears the flag only in the try block
inFlightStuck(ok) == ~ok

\* the in-flight flag once a write has ended (ok) or thrown (~ok)
inFlightAfterWrite(ok) == FALSE

RemoveAt(s, i) == SubSeq(s, 1, i - 1) \o SubSeq(s, i + 1, Len(s))

\* the finally block of backupToLinkedFile for writer i, and the microtask
\* it queues: the follow-up write for the pending reason
backupFinally(b, i, ok, handle, ws, t) ==
  LET b1 == [b EXCEPT !.writers = RemoveAt(@, i),
                      !.inFlight = inFlightAfterWrite(ok)]
  IN IF b1.pending # None
     THEN backupToLinkedFile([b1 EXCEPT !.pending = None], handle, b1.pending,
                             ws, t, "followup", FALSE)
     ELSE b1

SetBackup(b) ==
  /\ backupInFlight' = b.inFlight
  /\ pendingBackupReason' = b.pending
  /\ writers' = b.writers

backupVars == <<backupInFlight, pendingBackupReason, writers>>

(***************************************************************************)
(* History.  hist records what the last step did (op and its arguments)    *)
(* and a few facts of the run so far; no action reads it.                  *)
(***************************************************************************)
HistInit ==
  [op |-> "init", reason |-> None,
   nReq |-> 0,              \* backup requests made with a linked target
   lastArrived |-> None,    \* reason of the last request that found a write in flight
   sawFailure |-> FALSE,    \* a write has thrown or a permission was refused
   burst |-> 0,             \* scheduleAutoBackup calls since no timer was armed
   sessionPool |-> <<>>,    \* ids of the pool startReviewMode built
   answered |-> <<>>,       \* ids whose answer completed since then
   serial |-> TRUE,         \* no answer of the session overlapped another
   sorted |-> FALSE,        \* the last step made a new sorted array
   inserted |-> 0,          \* the count the import that just ended reports
   imported |-> {}]         \* the arrays whose import has completed

\* the history after a step named op
H(op) == [hist EXCEPT !.op = op, !.reason = None, !.sorted = FALSE, !.inserted = 0]

\* getSortedWordsForRender, called in view v, sorts a copy of the source
cacheMisses(v) == v.sortedWordsCacheKey # CacheKey(v)

\* history of a scheduleAutoBackup call
HSchedule(h) ==
  [h EXCEPT !.burst = IF \E t \in timers : t.cur THEN @ + 1 ELSE 1]

\* history of a backupToLinkedFile(reason) call made from state b
HRequest(h, b, handle, reason) ==
  IF ~handle THEN h
  ELSE IF b.inFlight
  THEN [h EXCEPT !.lastArrived = reason]
  ELSE h

\* history of the end of a write
HFinally(h) == [h EXCEPT !.lastArrived = None]

(***************************************************************************)
(* Actions of the backup synchronizer.                                     *)
(***************************************************************************)
reviewVars == <<reviewPool, buttonsEnabled, meaningShown>>

otherThanBackup == <<now, store, nextId, txq, viewVars, reviewVars, reviewOpen>>

\* a trigger may call ensureBackupPermission: with a linked target the call
\* takes a task of the model and counts as a request of the run
MayRequest == backupHandle => (FreeTask(tasks) /\ hist.nReq < MaxRequests)

\* ensureBackupPermission() up to its first await, for a caller that goes on
\* to backupToLinkedFile(reason)
ensureBegin(ts, handle, reason) ==
  IF handle THEN Spawn(ts, "query", reason) ELSE ts

HEnsure(h, handle) == IF handle THEN [h EXCEPT !.nReq = @ + 1] ELSE h

\* the debounce timer t fires: the callback of scheduleAutoBackup runs
TimerFire(t) ==
  /\ t \in timers
  /\ MayRequest
  /\ timers' = timers \ {t}
  /\ tasks' = ensureBegin(tasks, backupHandle, t.reason)
  /\ hist' = HEnsure([H("timerFire") EXCEPT !.reason = t.reason], backupHandle)
  /\ UNCHANGED <<otherThanBackup, metaHandle, initPc, backupVars, backupHandle, file>>

TeardownReasons == {"beforeunload", "pagehide", "visibilitychange"}

\* beforeunload / pagehide / visibilitychange to hidden: doImmediateExitBackup
Teardown(reason) ==
  /\ MayRequest
  /\ timers' = clearBackupTimer(timers)
  /\ tasks' = ensureBegin(tasks, backupHandle, reason)
  /\ hist' = HEnsure([H("teardown") EXCEPT !.reason = reason], backupHandle)
  /\ UNCHANGED <<otherThanBackup, metaHandle, initPc, backupVars, backupHandle, file>>

\* linkBackupFile: showSaveFilePicker resolved with a handle.  The picker is a
\* dialog the user works through; init has read the stored handle by then.
LinkBackupFile ==
  /\ initPc \notin {"reload", "getMeta"}
  /\ FreeTask(tasks) /\ hist.nReq < MaxRequests
  /\ backupHandle' = TRUE
  /\ tasks' = Spawn(tasks, "setMeta", "linked")
  /\ hist' = [H("link") EXCEPT !.nReq = @ + 1]
  /\ UNCHANGED <<otherThanBackup, metaHandle, initPc, backupVars, timers, file>>

\* linkBackupFile: setMeta completed; doImmediateExitBackup('linked')
SetMetaDone(i) ==
  /\ tasks[i].pc = "setMeta"
  /\ metaHandle' = TRUE
  /\ timers' = clearBackupTimer(timers)
  /\ tasks' = [tasks EXCEPT ![i] = IF backupHandle THEN Task("query", "linked")
                                   ELSE IdleTask]
  /\ hist' = [H("linked") EXCEPT !.reason = "linked"]
  /\ UNCHANGED <<otherThanBackup, initPc, backupVars, backupHandle, file>>

\* init goes on after initBackupHandle returned
initAfterBackup(pc, reason) ==
  IF pc = "backup" /\ reason = "startup" THEN "registerSW" ELSE pc

\* the caller of ensureBackupPermission got true: backupToLinkedFile(reason)
RunBackup(i, op) ==
  LET reason == tasks[i].reason
      b2 == backupToLinkedFile(BackupState, backupHandle, reason, words, now,
                               "direct", TRUE)
  IN /\ SetBackup(b2)
     /\ tasks' = [tasks EXCEPT ![i] = IdleTask]
     /\ hist' = [HRequest(H(op), BackupState, backupHandle, reason)
                   EXCEPT !.reason = reason]
     \* backupToLinkedFile returned at once (pending): init goes on
     /\ initPc' = IF Len(b2.writers) = Len(writers) THEN initAfterBackup(initPc, reason)
                  ELSE initPc

PermissionStates == {"granted", "denied", "prompt"}

\* ensureBackupPermission: queryPermission resolved
QueryPermissionDone(i, current) ==
  /\ tasks[i].pc = "query"
  /\ IF current = "granted"
     THEN RunBackup(i, "granted")
     ELSE /\ tasks' = [tasks EXCEPT ![i].pc = "request"]
          /\ hist' = [H("notGranted") EXCEPT !.reason = tasks[i].reason]
          /\ UNCHANGED <<backupVars, initPc>>
  /\ UNCHANGED <<otherThanBackup, metaHandle, backupHandle, timers, file>>

\* ensureBackupPermission: requestPermission resolved
RequestPermissionDone(i, asked) ==
  /\ tasks[i].pc = "request"
  /\ IF asked = "granted"
     THEN RunBackup(i, "granted")
     ELSE /\ tasks' = [tasks EXCEPT ![i] = IdleTask]
          /\ hist' = [H("refused") EXCEPT !.reason = tasks[i].reason,
                                          !.sawFailure = TRUE]
          /\ initPc' = initAfterBackup(initPc, tasks[i].reason)
          /\ UNCHANGED backupVars
  /\ UNCHANGED <<otherThanBackup, metaHandle, backupHandle, timers, file>>

\* the write ends: the try block returned (ok) or the catch block ran
WriteEnds(i, ok) ==
  LET w == writers[i]
      h1 == [H(IF ok THEN "writeDone" ELSE "writeFailed")
               EXCEPT !.reason = w.reason,
                      !.sawFailure = IF ok THEN @ ELSE TRUE]
      b2 == backupFinally(BackupState, i, ok, backupHandle, words, now)
  IN /\ SetBackup(b2)
     /\ hist' = HFinally(h1)
     /\ initPc' = IF w.origin = "direct" THEN initAfterBackup(initPc, w.reason)
                  ELSE initPc

\* createWritable(), write(data), close() resolve in turn; close() puts the
\* data in the file, and the try block returns
WriterStep(i) ==
  /\ i \in 1..Len(writers)
  /\ CASE writers[i].stage = "createWritable" ->
            /\ writers' = [writers EXCEPT ![i].stage = "write"]
            /\ hist' = H("created")
            /\ UNCHANGED <<backupInFlight, pendingBackupReason, initPc, file>>
       [] writers[i].stage = "write" ->
            /\ writers' = [writers EXCEPT ![i].stage = "close"]
            /\ hist' = H("written")
            /\ UNCHANGED <<backupInFlight, pendingBackupReason, initPc, file>>
       [] OTHER ->
            /\ file' = [written |-> TRUE, data |-> writers[i].data]
            /\ WriteEnds(i, TRUE)
  /\ UNCHANGED <<otherThanBackup, metaHandle, backupHandle, timers, tasks>>

\* createWritable(), write(data) or close() rejects
WriterThrows(i) ==
  /\ i \in 1..Len(writers)
  /\ WriteEnds(i, FALSE)
  /\ UNCHANGED <<otherThanBackup, metaHandle, backupHandle, timers, tasks, file>>

(***************************************************************************)
(* Actions of the record store and the list.                               *)
(***************************************************************************)
syncVars == <<metaHandle, backupVars, backupHandle, tasks, file>>

\* a handler may start one more store transaction
MayStartTx == Len(txq) < MaxInFlight /\ wordsVersion + Len(txq) < MaxVersion

\* the clock advances
Tick ==
  /\ now < MaxTime
  /\ now' = now + 1
  /\ hist' = H("tick")
  /\ UNCHANGED <<store, nextId, txq, initPc, viewVars, reviewVars, reviewOpen,
                 timers, syncVars>>

\* what the user types into wordInput and meaningInput
WordInputs == {<<>>, <<" ">>, <<" ", "a">>, <<"B", " ">>}
MeaningInputs == {<<" ">>, <<"m">>}

\* a variant of newWordRow whose row comes due a day after the save
newWordRowDueNextDay(word, meaning, t) == Row(0, word, meaning, t, 0, 1, t + DayLen, 0)

\* the row saveWord hands to addWord
newWordRow(word, meaning, t) == Row(0, word, meaning, t, 0, 1, t, 0)

\* saveWord() up to its first await
SaveWord(wordInput, meaningInput) ==
  /\ LET word == Trim(wordInput)
         meaning == Trim(meaningInput)
     IN IF word = <<>> \/ meaning = <<>>
        THEN /\ hist' = H("saveRejected")
             /\ UNCHANGED txq
        ELSE /\ MayStartTx
             /\ txq' = Append(txq, Tx("add", "save", newWordRow(word, meaning, now)))
             /\ hist' = H("save")
  /\ UNCHANGED <<now, store, nextId, initPc, viewVars, reviewVars, reviewOpen,
                 timers, syncVars>>

\* the delete button of a rendered row, confirmed: deleteWordById(row.id)
DeleteWord(i) ==
  /\ i \in 1..Len(rendered)
  /\ MayStartTx
  /\ txq' = Append(txq, Tx("delete", "delete", rendered[i]))
  /\ hist' = H("delete")
  /\ UNCHANGED <<now, store, nextId, initPc, viewVars, reviewVars, reviewOpen,
                 timers, syncVars>>

\* addWord's transaction completed; saveWord goes on to reloadWords
AddWordDone ==
  /\ txq # <<>> /\ Head(txq).kind = "add"
  /\ LET tx == Head(txq)
         row == [tx.row EXCEPT !.id = nextId]
     IN /\ store' = StoreAdd(store, tx.row, nextId)
        /\ nextId' = nextId + 1
        /\ txq' = Append(Tail(txq), Tx("getAll", tx.caller, row))
        /\ hist' = H("added")
  /\ UNCHANGED <<now, initPc, viewVars, reviewVars, reviewOpen, timers, syncVars>>

\* deleteWordById's transaction completed; the handler goes on to reloadWords
DeleteWordDone ==
  /\ txq # <<>> /\ Head(txq).kind = "delete"
  /\ LET tx == Head(txq)
     IN /\ store' = StoreDelete(store, tx.row.id)
        /\ txq' = Append(Tail(txq), Tx("getAll", tx.caller, tx.row))
        /\ hist' = H("deleted")
  /\ UNCHANGED <<now, nextId, initPc, viewVars, reviewVars, reviewOpen, timers,
                 syncVars>>

\* reloadWords once migrateWordsIfNeeded returned rows, and then the rest of
\* the handler that called it
ReloadDone(tx, rows) ==
  /\ \E r \in {rows} : \E v \in {reloadFinish(View, r)} : SetView(v)
  /\ txq' = Tail(txq)
  /\ IF tx.caller = "init"
     THEN /\ initPc' = "getMeta"      \* initBackupHandle: getMeta
          /\ hist' = [H("loaded") EXCEPT !.sorted = TRUE]
          /\ UNCHANGED timers
     ELSE /\ timers' = scheduleAutoBackup(timers, tx.caller)
          /\ hist' = [HSchedule(H(CASE tx.caller = "save" -> "saveDone"
                                     [] tx.caller = "import" -> "importDone"
                                     [] OTHER -> "deleteDone"))
                         EXCEPT !.reason = tx.caller, !.sorted = TRUE,
                                !.inserted = tx.inserted,
                                !.imported = IF tx.caller = "import"
                                             THEN @ \cup {tx.entries} ELSE @]
          /\ UNCHANGED initPc

\* getAllWords's transaction completed: migrateWordsIfNeeded(rows)
GetAllDone ==
  /\ txq # <<>> /\ Head(txq).kind = "getAll"
  /\ LET tx == Head(txq)
         rows == getAllRows(store)
         changed == changedRows(rows, now)
     IN IF changed # <<>>
        THEN /\ txq' = Append(Tail(txq),
                              [Tx("putWords", tx.caller, tx.row)
                                 EXCEPT !.rows = migratedRows(rows, now),
                                        !.changed = changed])
             /\ hist' = H("migrating")
             /\ UNCHANGED <<initPc, viewVars, timers>>
        ELSE ReloadDone(tx, migratedRows(rows, now))
  /\ UNCHANGED <<now, store, nextId, reviewVars, reviewOpen, syncVars>>

\* putWords's transaction completed
PutWordsDone ==
  /\ txq # <<>> /\ Head(txq).kind = "putWords"
  /\ store' = StorePutAll(store, Head(txq).changed)
  /\ ReloadDone(Head(txq), Head(txq).rows)
  /\ UNCHANGED <<now, nextId, reviewVars, reviewOpen, syncVars>>

(***************************************************************************)
(* Import.  A payload is the text of the chosen file: text that is not     *)
(* JSON, JSON that is not an array, or an array of entries.                *)
(***************************************************************************)
\* an entry of the array; a field that is missing or not a number holds
\* NotFinite, and an entry that is not an object has empty word and meaning
Entry(word, meaning, createdAt, reviewCount, interval, nextReviewAt, lastReviewedAt) ==
  [word |-> word, meaning |-> meaning, createdAt |-> createdAt,
   reviewCount |-> reviewCount, interval |-> interval,
   nextReviewAt |-> nextReviewAt, lastReviewedAt |-> lastReviewedAt]

Payload(kind, entries) == [kind |-> kind, entries |-> entries]

\* Number(x) || d
NumberOr(x, d) == IF x = NotFinite \/ x = 0 THEN d ELSE x

\* a variant of dedupKey that keeps the case of the word
dedupKeyCased(word, meaning) == Trim(word) \o <<"|">> \o norm(meaning)

\* `${norm(word)}|${norm(meaning)}`
dedupKey(word, meaning) == norm(word) \o <<"|">> \o norm(meaning)

\* existing, as importBackup builds it from state.words
existingKeys(ws) == {dedupKey(ws[i].word, ws[i].meaning) : i \in 1..Len(ws)}

\* the loop of importBackup skips an entry
importSkips(e, existing) ==
  \/ Trim(e.word) = <<>>
  \/ Trim(e.meaning) = <<>>
  \/ dedupKey(Trim(e.word), Trim(e.meaning)) \in existing

\* the entries from the first one the loop does not skip
RECURSIVE importSkip(_, _)
importSkip(rest, existing) ==
  IF rest = <<>> THEN <<>>
  ELSE IF importSkips(Head(rest), existing) THEN importSkip(Tail(rest), existing)
  ELSE rest

\* the row importBackup hands to addWord for entry e, with Date.now() = t
importRow(e, t) ==
  migrationRow(Row(0, Trim(e.word), Trim(e.meaning), NumberOr(e.createdAt, t),
                   NumberOr(e.reviewCount, 0), e.interval, e.nextReviewAt,
                   e.lastReviewedAt), t)

\* the loop of importBackup runs on from tx.rest until its next addWord, or
\* to reloadWords; the transaction it waits for then
importResume(tx, t) ==
  LET rest1 == importSkip(tx.rest, tx.existing)
  IN IF rest1 = <<>>
     THEN [tx EXCEPT !.kind = "getAll", !.row = NoRow, !.rest = <<>>]
     ELSE [tx EXCEPT !.kind = "importAdd", !.row = importRow(Head(rest1), t),
                     !.rest = Tail(rest1)]

\* the text importBackup reads from the chosen file
ImportPayloads ==
  {Payload("notJSON", <<>>),
   Payload("object", <<>>),
   Payload("array", <<>>),
   Payload("array", <<Entry(<<"a">>, <<"m">>, 1, 1, 2, 1, 1),
                      Entry(<<" ", "A">>, <<"M", " ">>, NotFinite, NotFinite,
                            NotFinite, NotFinite, NotFinite),
                      Entry(<<"b">>, <<"m">>, NotFinite, 0, 0, -1, NotFinite)>>),
   Payload("array", <<Entry(<<>>, <<"m">>, 1, 0, 1, 1, 0),
                      Entry(<<"b">>, <<" ">>, 1, 0, 1, 1, 0),
                      Entry(<<"B", " ">>, <<"m">>, 1, 0, 1, 3, 0),
                      Entry(<<"b">>, <<"M">>, 2, 0, 1, 1, 0),
                      Entry(<<"m">>, <<"m">>, 2, 0, 1, 1, 0)>>)}

\* JSON.parse(raw) returns
parses(payload) == payload.kind # "notJSON"

\* a variant of isArray that takes every parsed value for an array
isArrayAlways(payload) == TRUE

\* Array.isArray(rows)
isArray(payload) == payload.kind = "array"

\* importBackup(file) once file.text() resolved, up to its next await.  The
\* file is chosen in a dialog; init has loaded the words by then.
ImportBackup(payload) ==
  /\ initPc # "reload"
  /\ IF ~parses(payload)
     THEN /\ hist' = [H("importRejected") EXCEPT !.reason = "Invalid JSON file."]
          /\ UNCHANGED txq
     ELSE IF ~isArray(payload)
     THEN /\ hist' = [H("importRejected") EXCEPT
                         !.reason = "Backup format must be a JSON array."]
          /\ UNCHANGED txq
     ELSE /\ MayStartTx
          /\ txq' = Append(txq,
                       importResume([Tx("importAdd", "import", NoRow) EXCEPT
                                       !.entries = payload.entries,
                                       !.rest = payload.entries,
                                       !.existing = existingKeys(words)], now))
          /\ hist' = H("import")
  /\ UNCHANGED <<now, store, nextId, initPc, viewVars, reviewVars, reviewOpen,
                 timers, syncVars>>

\* addWord's transaction of importBackup completed: the loop goes on
ImportAddDone ==
  /\ txq # <<>> /\ Head(txq).kind = "importAdd"
  /\ LET tx == Head(txq)
         tx1 == [tx EXCEPT
                   !.existing = @ \cup {dedupKey(tx.row.word, tx.row.meaning)},
                   !.inserted = @ + 1,
                   !.added = @ \cup {nextId}]
     IN /\ store' = StoreAdd(store, tx.row, nextId)
        /\ nextId' = nextId + 1
        /\ txq' = Append(Tail(txq), importResume(tx1, now))
        /\ hist' = H("imported")
  /\ UNCHANGED <<now, initPc, viewVars, reviewVars, reviewOpen, timers, syncVars>>

(***************************************************************************)
(* Storage errors.  A readwrite transaction aborts: txDone rejects, the     *)
(* await in the handler throws and the rest of the handler does not run.   *)
(* The store and its key generator are as before the transaction.          *)
(***************************************************************************)
\* a variant of poolAfterAbort: the pool had its head taken off before the await
poolShiftedAnyway(pool) == IF pool = <<>> THEN <<>> ELSE Tail(pool)

\* state.reviewPool once reviewStep's putWord rejected: shift() is not reached
poolAfterAbort(pool) == pool

\* where the rejection of the handler ends
rejectionOf(caller) ==
  CASE caller = "save" -> "console.error"          \* saveWord().catch
    [] caller = "review" -> "console.error"        \* reviewStep(...).catch
    [] caller = "import" -> "Import failed."       \* importBackup(file).catch
    [] OTHER -> "unhandled rejection"              \* the delete listener

\* the transaction of addWord, deleteWordById or putWord aborts
WriteFails ==
  /\ txq # <<>> /\ Head(txq).kind \in {"add", "delete", "put", "importAdd"}
  /\ txq' = Tail(txq)
  /\ reviewPool' = IF Head(txq).kind = "put" THEN poolAfterAbort(reviewPool)
                   ELSE reviewPool
  /\ hist' = [H(CASE Head(txq).caller = "save" -> "saveFailed"
                  [] Head(txq).caller = "review" -> "answerFailed"
                  [] Head(txq).caller = "import" -> "importFailed"
                  [] OTHER -> "deleteFailed")
                EXCEPT !.reason = rejectionOf(Head(txq).caller)]
  /\ UNCHANGED <<now, store, nextId, initPc, viewVars, buttonsEnabled,
                 meaningShown, reviewOpen, timers, syncVars>>

(***************************************************************************)
(* Actions of the review session.  answer, reveal, start and exit are the  *)
(* operations the buttons and the keys call; the model lets them be called *)
(* in any state, as the functions themselves allow.                        *)
(***************************************************************************)
\* every order sort(() => Math.random() - 0.5) can leave
Shuffles(s) ==
  {[i \in 1..Len(s) |-> s[f[i]]] :
     f \in {g \in [1..Len(s) -> 1..Len(s)] :
              \A i, j \in 1..Len(s) : g[i] = g[j] => i = j}}

\* startReviewMode: the pool is the due rows in the order the shuffle left
StartReviewMode(pool) ==
  /\ pool \in Shuffles(getDueWords(words, now))
  /\ reviewPool' = pool
  /\ reviewOpen' = TRUE
  /\ buttonsEnabled' = (pool # <<>>)
  /\ meaningShown' = IF pool # <<>> THEN FALSE ELSE meaningShown
  /\ hist' = [H("startReview") EXCEPT
                !.sessionPool = [i \in 1..Len(pool) |-> pool[i].id],
                !.answered = <<>>,
                !.serial = \A k \in 1..Len(txq) : txq[k].kind # "put"]
  /\ UNCHANGED <<now, store, nextId, txq, initPc, viewVars, timers, syncVars>>

\* closeReviewMode: showMainScreen
CloseReviewMode ==
  /\ reviewOpen' = FALSE
  /\ hist' = H("closeReview")
  /\ UNCHANGED <<now, store, nextId, txq, initPc, viewVars, reviewVars, timers,
                 syncVars>>

\* revealHiddenReviewSide
RevealHiddenReviewSide ==
  /\ meaningShown' = IF buttonsEnabled THEN TRUE ELSE meaningShown
  /\ hist' = H("reveal")
  /\ UNCHANGED <<now, store, nextId, txq, initPc, viewVars, reviewPool,
                 buttonsEnabled, reviewOpen, timers, syncVars>>

\* the interval reviewStep computes
nextInterval(current, isKnown) ==
  IF isKnown THEN Max(1, RoundTimes2(OrElse(current.interval, 1))) ELSE 1

\* the row reviewStep puts
reviewUpdated(current, isKnown, t) ==
  [current EXCEPT
     !.interval = nextInterval(current, isKnown),
     !.lastReviewedAt = t,
     !.nextReviewAt = IF isKnown
                      THEN getNextReviewAt(nextInterval(current, isKnown), t)
                      ELSE getNextReviewAt(1, t),
     !.reviewCount = IF isKnown THEN OrElse(current.reviewCount, 0) + 1
                     ELSE OrElse(current.reviewCount, 0)]

\* reviewStep(isKnown) up to its await of putWord
ReviewStep(isKnown) ==
  /\ IF reviewPool = <<>>
     THEN /\ hist' = H("answerIgnored")
          /\ UNCHANGED txq
     ELSE /\ MayStartTx
          /\ txq' = Append(txq,
                      [Tx("put", "review", reviewUpdated(reviewPool[1], isKnown, now))
                         EXCEPT !.current = reviewPool[1], !.isKnown = isKnown,
                                !.at = now])
          /\ hist' = [H("answer") EXCEPT
                        !.serial = @ /\ \A k \in 1..Len(txq) : txq[k].kind # "put"]
  /\ UNCHANGED <<now, store, nextId, initPc, viewVars, reviewVars, reviewOpen,
                 timers, syncVars>>

\* a variant of patchWords that leaves the version and the cache key alone
patchWordsKeepCache(v, updated) ==
  IF \E i \in 1..Len(v.words) : v.words[i].id = updated.id
  THEN LET i == CHOOSE j \in 1..Len(v.words) : v.words[j].id = updated.id
       IN [v EXCEPT !.words = [@ EXCEPT ![i] = updated]]
  ELSE v

\* state.words after reviewStep patched the row of updated.id, if it is there
patchWords(v, updated) ==
  IF \E i \in 1..Len(v.words) : v.words[i].id = updated.id
  THEN LET i == CHOOSE j \in 1..Len(v.words) :
                   /\ v.words[j].id = updated.id
                   /\ \A k \in 1..(j - 1) : v.words[k].id # updated.id
       IN [v EXCEPT !.words = [@ EXCEPT ![i] = updated],
                    !.wordsVersion = @ + 1,
                    !.sortedWordsCacheKey = EmptyKey]
  ELSE v

\* a variant of Shift that takes the last element away
ShiftLast(s) == IF s = <<>> THEN <<>> ELSE SubSeq(s, 1, Len(s) - 1)

\* Array.prototype.shift
Shift(s) == IF s = <<>> THEN <<>> ELSE Tail(s)

\* putWord's transaction completed: the rest of reviewStep
PutWordDone ==
  /\ txq # <<>> /\ Head(txq).kind = "put"
  /\ LET tx == Head(txq)
         updated == tx.row
         v1 == patchWords(View, updated)
     IN /\ store' = StorePut(store, updated)
        /\ txq' = Tail(txq)
        /\ reviewPool' = Shift(reviewPool)
        \* renderReviewWord
        /\ buttonsEnabled' = IF reviewPool' = <<>> THEN FALSE ELSE buttonsEnabled
        /\ meaningShown' = IF reviewPool' = <<>> THEN meaningShown ELSE FALSE
        /\ SetView(IF v1.searchTerm = <<>> THEN renderWordListPage(v1)
                   ELSE renderWordListPage(applySearch(v1)))
        /\ timers' = scheduleAutoBackup(timers, "review")
        /\ hist' = [HSchedule(H("answerDone")) EXCEPT
                       !.reason = "review", !.answered = Append(@, updated.id),
                       !.sorted = cacheMisses(IF v1.searchTerm = <<>> THEN v1
                                              ELSE applySearch(v1))]
  /\ UNCHANGED <<now, nextId, initPc, reviewOpen, syncVars>>

(***************************************************************************)
(* Actions of the list controls.                                           *)
(***************************************************************************)
notView ==
  <<now, store, nextId, txq, initPc, reviewVars, reviewOpen, timers, syncVars>>

\* what the user leaves in searchInput when the 60 ms timer fires
SearchInputs == {<<>>, <<" ">>, <<"A">>, <<"b", " ">>}

\* the timer of the searchInput listener fires
SearchInput(value) ==
  LET v1 == applySearch([View EXCEPT !.searchTerm = value])
  IN /\ SetView(renderWordListPage(v1))
     /\ hist' = [H("search") EXCEPT !.sorted = cacheMisses(v1)]
     /\ UNCHANGED notView

SortModes == {"newest", "oldest", "mostReviewed", "leastReviewed", "alphabetical"}

\* sortBySelect changed to another option
SortByChange(value) ==
  LET v1 == [View EXCEPT !.sortBy = value, !.currentPage = 1,
                         !.sortedWordsCacheKey = EmptyKey]
  IN /\ value # sortBy
     /\ SetView(renderWordListPage(v1))
     /\ hist' = [H("sort") EXCEPT !.sorted = cacheMisses(v1)]
     /\ UNCHANGED notView

\* displayOrderSelect changed: the rows are drawn again
DisplayOrderChange ==
  /\ SetView(renderWordListPage(View))
  /\ hist' = [H("displayOrder") EXCEPT !.sorted = cacheMisses(View)]
  /\ UNCHANGED notView

\* Number(els.pageSizeSelect.value) of the options offered; 0 stands for a
\* value that is not a number
PageSizeInputs == {0, 1, 2, 300}

\* Math.min(MAX_PAGE_SIZE, Math.max(1, Number(value) || DEFAULT_PAGE_SIZE))
clampPageSize(value) == Min(MAX_PAGE_SIZE, Max(1, OrElse(value, DEFAULT_PAGE_SIZE)))

\* pageSizeSelect changed
PageSizeChange(value) ==
  LET v1 == [View EXCEPT !.pageSize = clampPageSize(value), !.currentPage = 1]
  IN /\ SetView(renderWordListPage(v1))
     /\ hist' = [H("pageSize") EXCEPT !.sorted = cacheMisses(v1)]
     /\ UNCHANGED notView

\* prevPageBtn clicked
PrevPage ==
  /\ IF currentPage <= 1
     THEN /\ hist' = H("prevIgnored")
          /\ UNCHANGED viewVars
     ELSE LET v1 == [View EXCEPT !.currentPage = @ - 1]
          IN /\ SetView(renderWordListPage(v1))
             /\ hist' = [H("prevPage") EXCEPT !.sorted = cacheMisses(v1)]
  /\ UNCHANGED notView

\* nextPageBtn clicked
NextPage ==
  LET v1 == [View EXCEPT !.currentPage = @ + 1]
  IN /\ SetView(renderWordListPage(v1))
     /\ hist' = [H("nextPage") EXCEPT !.sorted = cacheMisses(v1)]
     /\ UNCHANGED notView

(***************************************************************************)
(* The rest of init(), after reloadWords.                                  *)
(***************************************************************************)
\* initBackupHandle: getMeta resolved
GetMetaDone ==
  /\ initPc = "getMeta"
  /\ metaHandle => (FreeTask(tasks) /\ hist.nReq < MaxRequests)
  /\ backupHandle' = metaHandle
  /\ tasks' = ensureBegin(tasks, metaHandle, "startup")
  /\ initPc' = IF metaHandle THEN "backup" ELSE "registerSW"
  /\ hist' = HEnsure([H("gotMeta") EXCEPT !.reason = "startup"], metaHandle)
  /\ UNCHANGED <<otherThanBackup, metaHandle, backupVars, timers, file>>

\* registerSW resolved: showMainScreen
RegisterSWDone ==
  /\ initPc = "registerSW"
  /\ initPc' = "done"
  /\ reviewOpen' = FALSE
  /\ hist' = H("initDone")
  /\ UNCHANGED <<now, store, nextId, txq, viewVars, reviewVars, timers, syncVars>>

(***************************************************************************)
(* The initial state: the script ran, init() opened the database, bound    *)
(* the events and waits for the getAll of its reloadWords.  The store and  *)
(* the appMeta entry are what an earlier run left.                         *)
(***************************************************************************)
\* a row saved by the earlier format: no interval, no nextReviewAt,
\* lastReviewedAt null
LegacyRow == Row(1, <<"a">>, <<"m">>, 1, 1, NotFinite, NotFinite, NotFinite)

\* a row of the current format, reviewed once and due again
ReviewedRow == Row(1, <<"a">>, <<"m">>, 1, 1, 2, 1, 1)

InitialStores == {{LegacyRow}, {ReviewedRow}}

NoFile == [written |-> FALSE, data |-> <<>>]

InitWith(stores, handles) ==
  /\ now = DayLen
  /\ store \in stores
  /\ nextId = Cardinality(store) + 1
  /\ metaHandle \in handles
  /\ txq = <<Tx("getAll", "init", NoRow)>>
  /\ initPc = "reload"
  /\ words = <<>>
  /\ filteredWords = <<>>
  /\ sortedWordsCache = <<>>
  /\ sortedWordsCacheKey = EmptyKey
  /\ wordsVersion = 0
  /\ searchTerm = <<>>
  /\ currentPage = 1
  /\ pageSize = DEFAULT_PAGE_SIZE
  /\ sortBy = "newest"
  /\ rendered = <<>>
  /\ reviewPool = <<>>
  /\ reviewOpen = FALSE
  /\ buttonsEnabled = TRUE
  /\ meaningShown = FALSE
  /\ timers = {}
  /\ backupInFlight = FALSE
  /\ pendingBackupReason = None
  /\ backupHandle = FALSE
  /\ tasks = [i \in TaskIds |-> IdleTask]
  /\ writers = <<>>
  /\ file = NoFile
  /\ hist = HistInit

Init == InitWith(InitialStores, BOOLEAN)

\* a browser profile in which no backup file was ever linked
InitUnlinked == InitWith(InitialStores, {FALSE})

vars ==
  <<now, store, nextId, metaHandle, txq, initPc, viewVars, reviewVars,
    reviewOpen, timers, backupVars, backupHandle, tasks, file, hist>>

\* saveWord and its store transaction
NextSave ==
  \/ \E w \in WordInputs, m \in MeaningInputs : SaveWord(w, m)
  \/ AddWordDone

\* deleteWordById and its store transaction
NextDelete ==
  \/ \E i \in 1..MaxVersion : DeleteWord(i)
  \/ DeleteWordDone

\* reloadWords and the steps of init()
NextLoad ==
  \/ GetAllDone
  \/ PutWordsDone
  \/ GetMetaDone
  \/ RegisterSWDone

\* the end of a write to the backup file
NextWrite ==
  \/ \E i \in 1..MaxTasks : WriterStep(i)
  \/ \E i \in 1..MaxTasks : WriterThrows(i)

\* the triggers of a backup
NextTrigger ==
  \/ \E t \in timers : TimerFire(t)
  \/ \E r \in TeardownReasons : Teardown(r)
  \/ LinkBackupFile

\* the awaits of linkBackupFile and ensureBackupPermission
NextPermission ==
  \/ \E i \in TaskIds : SetMetaDone(i)
  \/ \E i \in TaskIds, p \in PermissionStates : QueryPermissionDone(i, p)
  \/ \E i \in TaskIds, p \in {"granted", "denied"} : RequestPermissionDone(i, p)

\* the backup synchronizer
NextSync == NextTrigger \/ NextPermission \/ NextWrite

\* the review session
NextReviewSession ==
  \/ \E pool \in Shuffles(getDueWords(words, now)) : StartReviewMode(pool)
  \/ CloseReviewMode
  \/ RevealHiddenReviewSide
  \/ \E k \in BOOLEAN : ReviewStep(k)
  \/ PutWordDone

\* importBackup and its store transactions
NextImport ==
  \/ \E payload \in ImportPayloads : ImportBackup(payload)
  \/ ImportAddDone

\* the controls of the list
NextList ==
  \/ \E value \in SearchInputs : SearchInput(value)
  \/ \E value \in SortModes : SortByChange(value)
  \/ DisplayOrderChange
  \/ \E value \in PageSizeInputs : PageSizeChange(value)
  \/ PrevPage
  \/ NextPage

Next ==
  \/ NextSave \/ NextDelete \/ NextLoad \/ NextSync \/ NextReviewSession
  \/ NextList \/ NextImport \/ WriteFails \/ Tick

\* the whole program
Spec == Init /\ [][Next]_vars

\* a browser profile that holds one record
InitOneRecord == InitWith({{LegacyRow}}, BOOLEAN)

\* the user edits the record set, one edit at a time and at most n edits
EditsUpTo(n) ==
  /\ txq = <<>>
  /\ wordsVersion <= n
  /\ \/ SaveWord(<<"B", " ">>, <<"m">>)
     \/ DeleteWord(1)

\* the backup synchronizer at one clock value, over a record set that the
\* user edits at most MaxBackupEdits times
SpecBackup ==
  /\ InitOneRecord
  /\ [][\/ EditsUpTo(MaxBackupEdits)
        \/ AddWordDone
        \/ DeleteWordDone
        \/ NextLoad
        \/ NextSync]_vars

\* the debounce timer: more edits, fewer backup requests
SpecDebounce ==
  /\ InitOneRecord
  /\ [][\/ EditsUpTo(MaxDebounceEdits)
        \/ AddWordDone
        \/ DeleteWordDone
        \/ NextLoad
        \/ hist.nReq < MaxDebounceRequests /\ NextTrigger
        \/ NextPermission
        \/ NextWrite]_vars

\* the review session over a store of at most MaxRecords records, in a
\* profile without a backup file
SpecReview ==
  /\ InitUnlinked
  /\ [][\/ \E w \in {<<" ">>, <<" ", "a">>}, m \in MeaningInputs :
              /\ Trim(w) # <<>> /\ Trim(m) # <<>> =>
                    Cardinality(store) + Len(txq) < MaxRecords
              /\ SaveWord(w, m)
        \/ AddWordDone
        \/ NextLoad
        \/ NextReviewSession
        \/ Tick]_vars

\* saves and deletes, overlapping as the store's queue allows, in a profile
\* without a backup file
SpecSave == InitUnlinked /\ [][NextSave \/ NextDelete \/ NextLoad \/ Tick]_vars

\* a store of three records of the current format: two share a createdAt,
\* two share a reviewCount, two words differ only by case
ListStore ==
  {Row(1, <<"a">>, <<"m">>, 1, 1, 2, 1, 1),
   Row(2, <<"B">>, <<"m">>, 2, 0, 1, 4, 0),
   Row(3, <<"A">>, <<"b">>, 2, 1, 1, 2, 0)}

InitList == InitWith({ListStore}, {FALSE})

\* the list and its controls over a record set that a save, a delete or a
\* "known" answer changes, one edit at a time, in a profile without a backup
\* file; the review pool is taken in the order of state.words; the rows are
\* of the current format, so the migration on load writes nothing
SpecList ==
  /\ InitList
  /\ [][\/ NextList
        \/ /\ txq = <<>>
           /\ wordsVersion <= MaxListEdits
           /\ \/ SaveWord(<<"B", " ">>, <<"m">>)
              \/ \E i \in 1..MaxVersion : DeleteWord(i)
              \/ ReviewStep(TRUE)
        \/ AddWordDone
        \/ DeleteWordDone
        \/ GetAllDone
        \/ GetMetaDone
        \/ RegisterSWDone
        \/ StartReviewMode(getDueWords(words, now))
        \/ PutWordDone]_vars

\* what a scheduling field of a stored row may hold: nothing or a value
\* that is not a number, a negative number, zero, a positive number
FieldInputs == {NotFinite, -1, 0, 1, 2}

\* a store of one record whose scheduling fields hold any mix of these
MigrationStores ==
  {{Row(1, <<"a">>, <<"m">>, c, rc, iv, nr, lr)} :
     c \in FieldInputs, rc \in FieldInputs, iv \in FieldInputs,
     nr \in FieldInputs, lr \in FieldInputs}

InitMigration == InitWith(MigrationStores, {FALSE})

\* init loads and migrates the store; a save loads it again, later
SpecMigration ==
  /\ InitMigration
  /\ [][\/ NextLoad
        \/ txq = <<>> /\ SaveWord(<<"B", " ">>, <<"m">>)
        \/ AddWordDone
        \/ Tick]_vars

\* imports, one after the other, while the clock runs, in a profile without
\* a backup file
SpecImport ==
  /\ InitUnlinked
  /\ [][\/ \E payload \in ImportPayloads : txq = <<>> /\ ImportBackup(payload)
        \/ ImportAddDone
        \/ NextLoad
        \/ Tick]_vars

\* saves, deletes, answers, imports and starts of a review session, one at
\* a time, over a store whose write transactions may abort, in a profile
\* without a backup file
SpecFailure ==
  /\ InitUnlinked
  /\ [][\/ /\ txq = <<>>
           /\ nextId <= MaxStored
           /\ \/ SaveWord(<<"B", " ">>, <<"m">>)
              \/ DeleteWord(1)
              \/ \E k \in BOOLEAN : ReviewStep(k)
              \/ \E payload \in ImportPayloads : ImportBackup(payload)
              \/ StartReviewMode(getDueWords(words, now))
        \/ AddWordDone
        \/ DeleteWordDone
        \/ PutWordDone
        \/ ImportAddDone
        \/ WriteFails
        \/ NextLoad]_vars

(***************************************************************************)
(* Properties of the backup synchronizer.                                  *)
(***************************************************************************)
\* the steps in which a write ends: the finally block of backupToLinkedFile
WriteEndStep == hist'.op \in {"writeDone", "writeFailed"}

\* the steps that call scheduleAutoBackup
ScheduleStep == hist'.op \in {"saveDone", "deleteDone", "answerDone", "importDone"}

\* the steps in which a trigger calls ensureBackupPermission
TriggerStep == hist'.op \in {"timerFire", "teardown"}

\* C1: in every reachable state at most one write to the backup file is in
\* progress, and state.backupInFlight is set exactly while one is; a request
\* that finds a write in flight starts none.
C1_SingleWriter ==
  /\ Len(writers) <= 1
  /\ backupInFlight <=> Len(writers) = 1

\* a request arrived while a write was in flight and was left pending
C1_Witness ==
  /\ Len(writers) = 1
  /\ writers[1].stage = "write"
  /\ pendingBackupReason # None

\* C2: a request that finds a write in flight is left pending and the last
\* such reason is the one retained; when the write ends with a reason
\* pending, exactly one follow-up write starts, for that reason, serializing
\* state.words as it is then, and nothing stays pending; when no reason is
\* pending no write follows; a follow-up write starts in no other step.
C2_Coalescing ==
  [][/\ pendingBackupReason' # None => Len(writers') = 1
     /\ pendingBackupReason' = hist'.lastArrived
     /\ WriteEndStep /\ pendingBackupReason # None =>
          /\ writers' = <<Writer(pendingBackupReason, asBackupArray(words, now),
                                 "followup", FALSE)>>
          /\ pendingBackupReason' = None
     /\ WriteEndStep /\ pendingBackupReason = None => writers' = <<>>
     /\ ~WriteEndStep =>
          \A i \in 1..Len(writers') :
            writers'[i].origin = "followup" =>
              i <= Len(writers) /\ writers[i].origin = "followup"]_vars

\* the first write put its data in the file, and the follow-up write, started
\* for the pending reason, carries the record set as edited in between
C2_Witness ==
  /\ hist.op = "writeDone"
  /\ Len(writers) = 1
  /\ writers[1].origin = "followup"
  /\ writers[1].reason = "save"
  /\ file.written
  /\ writers[1].data # file.data
  /\ writers[1].data = asBackupArray(words, now)

\* C3 as stated: every write in progress started after ensureBackupPermission
\* returned true, with no write ending in between.
C3_EveryWriteValidated ==
  \A i \in 1..Len(writers) : writers[i].validated

\* C4: at most one debounce timer is armed, and it is the one the last
\* scheduleAutoBackup call armed, with that call's reason; a fire takes that
\* timer away and hands its reason on, so a burst of calls ends in at most
\* one fire, with the reason of the last call.
C4_SingleTimer ==
  [][/\ Cardinality(timers') <= 1
     /\ \A t \in timers' : t.cur
     /\ ScheduleStep => timers' = {[reason |-> hist'.reason, cur |-> TRUE]}
     /\ hist'.op = "timerFire" =>
          /\ timers' = {}
          /\ timers = {[reason |-> hist'.reason, cur |-> TRUE]}
     /\ ~ScheduleStep => timers' \subseteq timers]_vars

\* the timer of a burst of two calls fired with the reason of the second
C4_Witness ==
  /\ hist.op = "timerFire"
  /\ hist.burst = 2
  /\ hist.reason = "delete"

\* C4 as stated: every burst ends in a fire, so an armed timer goes away only
\* by firing or by being replaced.
C4_ExactlyOneFire ==
  [][timers # {} /\ timers' = {} => hist'.op = "timerFire"]_vars

\* C5 as stated: when a teardown handler yields with a linked target, the
\* write for its reason has started or its reason is pending.
C5_WriteBegunAtYield ==
  hist.op = "teardown" /\ backupHandle =>
    \/ \E i \in 1..Len(writers) : writers[i].reason = hist.reason
    \/ pendingBackupReason = hist.reason

\* C6: the target stays linked; when a write throws, the in-flight flag is
\* cleared unless the follow-up write started; after any failure a trigger
\* with a linked target starts a permission check for its reason, and a
\* check that returns granted starts the write or leaves the reason pending
\* behind the write in flight.
C6_FailureTolerant ==
  [][/\ backupHandle => backupHandle'
     /\ hist'.op = "writeFailed" => (backupInFlight' <=> writers' # <<>>)
     /\ hist'.op = "refused" => UNCHANGED <<backupVars, backupHandle>>
     /\ hist.sawFailure /\ backupHandle /\ TriggerStep =>
          \E i \in TaskIds : /\ tasks[i] = IdleTask
                             /\ tasks'[i] = Task("query", hist'.reason)
     /\ hist.sawFailure /\ hist'.op = "granted" =>
          \/ /\ ~backupInFlight
             /\ Len(writers') = 1
             /\ writers'[1].reason = hist'.reason
             /\ writers'[1].stage = "createWritable"
          \/ /\ backupInFlight
             /\ pendingBackupReason' = hist'.reason]_vars

\* after a write threw, a teardown signal's check returned granted and its
\* write has started
C6_Witness ==
  /\ hist.sawFailure
  /\ hist.op = "granted"
  /\ hist.reason \in TeardownReasons
  /\ ~file.written
  /\ Len(writers) = 1
  /\ writers[1].reason = hist.reason
  /\ writers[1].origin = "direct"

(***************************************************************************)
(* Properties of the review scheduler and of saveWord.                     *)
(***************************************************************************)
\* the rows of ws with this id
RowsOf(ws, id) == SelectSeq(ws, LAMBDA r : r.id = id)

Ids(ws) == [i \in 1..Len(ws) |-> ws[i].id]

\* C7 as stated: when an answer's put completes, the stored row of that id
\* becomes the transition of the row stored before it (interval doubled and
\* reviewCount + 1 for known, interval 1 and reviewCount kept for unknown,
\* lastReviewedAt the answer time, nextReviewAt that day's midnight plus
\* interval days), so reviewCount never decreases and interval stays >= 1.
C7_TransitionOfStored ==
  [][hist'.op = "answerDone" =>
       LET tx == Head(txq)
       IN \A old \in store : old.id = tx.row.id =>
            /\ tx.row \in store'
            /\ tx.row = reviewUpdated(old, tx.isKnown, tx.at)
            /\ tx.row.reviewCount >= old.reviewCount
            /\ tx.row.interval >= 1]_vars

\* C8: the store gains exactly one row per save, under a fresh id; when
\* saveWord completes, state.words holds exactly one row of that id, and it
\* has reviewCount 0, interval 1, lastReviewedAt 0 and nextReviewAt =
\* createdAt = the save time, which is not after the clock, so getDueWords
\* returns it; the word and meaning are the trimmed inputs.  If state.words
\* held every other row of the store before that step (no other save or
\* delete completed in between), state.words and the due rows grow by one.
\* A save whose trimmed word or meaning is empty starts no transaction and
\* leaves store, state.words and state.wordsVersion as they are.
C8_SaveDefaults ==
  [][/\ hist'.op = "added" =>
          /\ \A r \in store : r.id # nextId
          /\ store' = store \cup {[Head(txq).row EXCEPT !.id = nextId]}
     /\ hist'.op = "saveDone" =>
          LET row == Head(txq).row
              got == RowsOf(words', row.id)
          IN /\ Len(got) = 1
             /\ got[1] = row
             /\ row.reviewCount = 0 /\ row.interval = 1 /\ row.lastReviewedAt = 0
             /\ row.nextReviewAt = row.createdAt
             /\ row.createdAt <= now
             /\ RowsOf(getDueWords(words', now), row.id) = got
             /\ row.word # <<>> /\ row.word = Trim(row.word)
             /\ row.meaning # <<>> /\ row.meaning = Trim(row.meaning)
             /\ {r.id : r \in store} = {words[i].id : i \in 1..Len(words)} \cup {row.id}
                  /\ RowsOf(words, row.id) = <<>> =>
                  /\ Len(words') = Len(words) + 1
                  /\ Len(getDueWords(words', now)) = Len(getDueWords(words, now)) + 1
     /\ hist'.op \in {"save", "saveRejected"} =>
          \A w \in WordInputs, m \in MeaningInputs :
            SaveWord(w, m) =>
              IF Trim(w) = <<>> \/ Trim(m) = <<>>
              THEN UNCHANGED <<store, nextId, txq, words, wordsVersion, timers>>
              ELSE /\ Len(txq') = Len(txq) + 1
                   /\ txq'[Len(txq')].kind = "add"
                   /\ txq'[Len(txq')].row.createdAt = now
                   /\ txq'[Len(txq')].row.word = Trim(w)
                   /\ txq'[Len(txq')].row.meaning = Trim(m)]_vars

\* a save of " a" completed after the clock moved on: the new row is the
\* second of state.words, with the trimmed word, and it is due
C8_Witness ==
  /\ hist.op = "saveDone"
  /\ Len(words) = 2
  /\ \E i \in 1..Len(words) :
       /\ words[i].id = 2
       /\ words[i].word = <<"a">>
       /\ words[i].reviewCount = 0
       /\ words[i].nextReviewAt = words[i].createdAt
       /\ words[i].createdAt < now
       /\ \E j \in 1..Len(getDueWords(words, now)) :
            getDueWords(words, now)[j] = words[i]

\* C9: in a session whose answers did not overlap, when an answer's put
\* completes the row put is the transition of the row at the head of the
\* pool, which is the row the store held; that row leaves the pool and the
\* rest stays in order; the ids answered so far are the first ones of the
\* pool the session started with, each once, so after as many answers as the
\* pool had rows the pool is empty and the answer buttons are disabled.  An
\* answer with an empty pool starts no transaction and changes nothing.
C9_SerialSession ==
  [][/\ hist'.serial =>
          /\ hist'.answered \o Ids(reviewPool') = hist'.sessionPool
          /\ \A i, j \in 1..Len(hist'.sessionPool) :
               hist'.sessionPool[i] = hist'.sessionPool[j] => i = j
     /\ hist'.serial /\ hist'.op = "answerDone" =>
          LET tx == Head(txq)
          IN /\ reviewPool # <<>>
             /\ tx.current = Head(reviewPool)
             /\ tx.current \in store
             /\ tx.row = reviewUpdated(tx.current, tx.isKnown, tx.at)
             /\ store' = (store \ {tx.current}) \cup {tx.row}
             /\ RowsOf(words', tx.row.id) = <<tx.row>>
             /\ reviewPool' = Tail(reviewPool)
             /\ reviewPool' = <<>> => ~buttonsEnabled'
     /\ hist'.op = "answerIgnored" => reviewPool = <<>>
     /\ \A k \in BOOLEAN :
          reviewPool = <<>> /\ ReviewStep(k) =>
            /\ hist'.op = "answerIgnored"
            /\ UNCHANGED <<store, nextId, txq, viewVars, reviewVars, timers>>]_vars

\* a session of two rows: two answers, one after the other, emptied the pool
C9_Witness ==
  /\ hist.op = "answerDone"
  /\ hist.serial
  /\ Len(hist.sessionPool) = 2
  /\ Len(hist.answered) = 2
  /\ reviewPool = <<>>
  /\ ~buttonsEnabled

\* C10 as stated: after closeReviewMode the pool is empty.
C10_ExitDiscardsPool ==
  hist.op = "closeReview" => reviewPool = <<>>

(***************************************************************************)
(* Properties of the list.                                                 *)
(***************************************************************************)
\* the steps that call renderWordListPage
RenderStep ==
  hist'.op \in {"loaded", "saveDone", "deleteDone", "answerDone", "importDone",
                "search", "sort", "displayOrder", "pageSize", "prevPage",
                "nextPage"}

\* ceil(total / ps), at least 1: the least n >= 1 with n * ps >= total
CeilPages(total, ps) ==
  CHOOSE n \in 1..(total + 1) : n * ps >= total /\ (n = 1 \/ (n - 1) * ps < total)

\* C11: after every step that renders the list, the page count the render
\* computed (from the sorted array it read) is max(1, ceil(total / pageSize))
\* for total the size of the active source, and 1 <= currentPage <= page
\* count; 250 records at page size 100 give 3 pages, 201 give 3, 200 give 2
\* and 0 give 1.
C11_PageInvariant ==
  [][/\ RenderStep =>
          LET total == Len(getActiveSource(View'))
              pageCount == getPageCount(Len(sortedWordsCache'), pageSize')
          IN /\ pageCount = CeilPages(total, pageSize')
             /\ 1 <= currentPage' /\ currentPage' <= pageCount
     /\ getPageCount(250, 100) = 3 /\ getPageCount(201, 100) = 3
     /\ getPageCount(200, 100) = 2 /\ getPageCount(0, 100) = 1]_vars

\* the next-page button took the list of three records at page size 2 to its
\* second and last page
C11_Witness ==
  /\ hist.op = "nextPage"
  /\ Len(words) = 3 /\ searchTerm = <<>>
  /\ pageSize = 2
  /\ currentPage = 2
  /\ Len(rendered) = 1

\* C12 as stated: when a delete completes, the current page is the page
\* before the delete clamped to the new page count: min(currentPage before,
\* new page count).
C12_ClampedNotReset ==
  [][hist'.op = "deleteDone" /\ Len(words') < Len(words) =>
       currentPage' = Min(currentPage,
                          getPageCount(Len(getActiveSource(View')), pageSize'))]_vars

\* C13 as stated: the source of the view is state.words whenever the trimmed,
\* lower-cased search term is empty, and otherwise it is the rows of
\* state.words whose lower-cased word or meaning contains that term.
C13_SourceOfView ==
  LET t == norm(searchTerm)
  IN IF t = <<>>
     THEN getActiveSource(View) = words
     ELSE getActiveSource(View) =
            SelectSeq(words, LAMBDA row : \/ Includes(ToLower(row.word), t)
                                          \/ Includes(ToLower(row.meaning), t))

\* what a read of the view returns in state v
ReadOf(v) == getSortedWordsForRender(v).sortedWordsCache

\* a step that reads the view with the cache filled under the key of the
\* state, and leaves version, sort mode, page size and normalized term alone
RereadStep ==
  /\ RenderStep
  /\ ~cacheMisses(View)
  /\ CacheKey(View') = CacheKey(View)

RECURSIVE WordLess(_, _)
WordLess(x, y) ==
  IF y = <<>> THEN FALSE
  ELSE IF x = <<>> THEN TRUE
  ELSE LET cx == CharRank(LowerChar(Head(x)))
           cy == CharRank(LowerChar(Head(y)))
       IN cx < cy \/ (cx = cy /\ WordLess(Tail(x), Tail(y)))

\* row a may stand before row b in the list sorted by mode
InOrder(a, b, mode) ==
  CASE mode = "newest" -> a.createdAt >= b.createdAt
    [] mode = "oldest" -> a.createdAt <= b.createdAt
    [] mode = "mostReviewed" ->
         \/ a.reviewCount > b.reviewCount
         \/ a.reviewCount = b.reviewCount /\ a.createdAt >= b.createdAt
    [] mode = "leastReviewed" ->
         \/ a.reviewCount < b.reviewCount
         \/ a.reviewCount = b.reviewCount /\ a.createdAt >= b.createdAt
    [] mode = "alphabetical" ->
         \/ WordLess(a.word, b.word)
         \/ ~WordLess(b.word, a.word) /\ a.createdAt >= b.createdAt

\* the number of times row r stands in s
Count(s, r) == Cardinality({i \in 1..Len(s) : s[i] = r})

\* page p of the sorted array
PageOf(sorted, p, ps) == Slice(sorted, (p - 1) * ps, p * ps)

\* C15: after every step that renders the list, the sorted array is a
\* permutation of the active source in which every row stands in order before
\* every later row (primary key of the sort mode, ties by createdAt
\* descending); the rows shown are page currentPage of it; every page but the
\* last has pageSize rows, the last has between 1 and pageSize (none when the
\* array is empty), and every position of the array lies on exactly one page.
C15_SortedAndPaged ==
  [][RenderStep =>
       LET sorted == sortedWordsCache'
           source == getActiveSource(View')
           ps == pageSize'
           n == getPageCount(Len(sorted), ps)
       IN /\ Len(sorted) = Len(source)
          /\ \A i \in 1..Len(source) : Count(sorted, source[i]) = Count(source, source[i])
          /\ \A i, j \in 1..Len(sorted) : i < j => InOrder(sorted[i], sorted[j], sortBy')
          /\ rendered' = IF sorted = <<>> THEN <<>> ELSE PageOf(sorted, currentPage', ps)
          /\ \A p \in 1..(n - 1) : Len(PageOf(sorted, p, ps)) = ps
          /\ sorted # <<>> => Len(PageOf(sorted, n, ps)) \in 1..ps
          /\ \A i \in 1..Len(sorted) :
               /\ Cardinality({p \in 1..n : \E k \in 1..Len(PageOf(sorted, p, ps)) :
                                              (p - 1) * ps + k = i}) = 1
               /\ PageOf(sorted, ((i - 1) \div ps) + 1, ps)[((i - 1) % ps) + 1] = sorted[i]]_vars

\* the list of three records was sorted alphabetically at page size 2: "A"
\* (newer) stands before "a", and the first page shows two rows
C15_Witness ==
  /\ hist.op = "sort"
  /\ sortBy = "alphabetical"
  /\ pageSize = 2
  /\ Len(sortedWordsCache) = 3
  /\ sortedWordsCache[1].id = 3 /\ sortedWordsCache[2].id = 1
  /\ Len(rendered) = 2

(***************************************************************************)
(* Properties of the migration normalizer.                                 *)
(***************************************************************************)
\* x is a number greater than low
ValidAbove(x, low) == x # NotFinite /\ x > low

\* one of the five scheduling fields of row r is invalid
HasInvalidField(r) ==
  \/ ~ValidAbove(r.createdAt, 0)
  \/ ~ValidAbove(r.reviewCount, -1)
  \/ ~ValidAbove(r.interval, 0)
  \/ ~ValidAbove(r.nextReviewAt, 0)
  \/ ~ValidAbove(r.lastReviewedAt, -1)

\* C16: for every stored row r and the time t of the clock, migrationDefaults
\* applied to its own output at t returns that output with changed = false,
\* and the changed flag of the first application is true exactly when one of
\* createdAt, reviewCount, interval, nextReviewAt, lastReviewedAt of r was
\* invalid; the rows reloadWords writes back are normalized, and once a load
\* has completed no later load finds a row to migrate.
C16_Idempotent ==
  [][/\ \A r \in store :
          LET first == migrationDefaults(r, now)
              second == migrationDefaults(first.row, now)
          IN /\ second = [row |-> first.row, changed |-> FALSE]
             /\ first.changed <=> HasInvalidField(r)
     /\ hist'.op = "migrating" =>
          /\ wordsVersion = 0
          /\ \A i \in 1..Len(txq'[Len(txq')].changed) :
               ~HasInvalidField(txq'[Len(txq')].changed[i])]_vars

\* the first load found the stored row invalid in three fields of different
\* kinds (missing interval, zero createdAt, negative reviewCount) and is
\* writing the normalized row back
C16_Witness ==
  /\ hist.op = "migrating"
  /\ \E r \in store :
       /\ r.interval = NotFinite /\ r.createdAt = 0 /\ r.reviewCount = -1
       /\ r.nextReviewAt = 2 /\ r.lastReviewedAt = 1
  /\ Head(txq).kind = "putWords"
  /\ Head(txq).changed[1].interval = 1
  /\ Head(txq).changed[1].createdAt = now
  /\ Head(txq).changed[1].reviewCount = 0
  /\ Head(txq).changed[1].nextReviewAt = 2

(***************************************************************************)
(* Properties of import.                                                   *)
(***************************************************************************)
\* word and meaning, trimmed and lower-cased
PairKey(word, meaning) == <<norm(word), norm(meaning)>>

\* the rows of ws that stand for the same entry as e
SameEntry(ws, e) ==
  SelectSeq(ws, LAMBDA r : PairKey(r.word, r.meaning) = PairKey(e.word, e.meaning))

\* entry e has a word and a meaning
ValidEntry(e) == Trim(e.word) # <<>> /\ Trim(e.meaning) # <<>>

\* the first valid entry of the array that stands for the same entry as e
FirstLike(entries, e) ==
  entries[CHOOSE i \in 1..Len(entries) :
            /\ ValidEntry(entries[i])
            /\ PairKey(entries[i].word, entries[i].meaning) = PairKey(e.word, e.meaning)
            /\ \A j \in 1..(i - 1) :
                 ~ValidEntry(entries[j])
                   \/ PairKey(entries[j].word, entries[j].meaning)
                        # PairKey(e.word, e.meaning)]

\* C17: when an import that began with state.words holding the stored rows
\* completes, state.words holds the rows it held plus the rows inserted, as
\* many as the import reports; for every entry with a non-empty trimmed word
\* and meaning, no row was inserted if a row equal to it in trimmed,
\* lower-cased word and meaning was there before, and otherwise exactly one
\* row, made from the first such entry of the array; no row was inserted for
\* any other entry; and an import of an array whose import completed before
\* inserts no row.
C17_ImportDedup ==
  [][hist'.op = "importDone" =>
       LET entries == Head(txq).entries
           before == words
           after == words'
           new == SelectSeq(after, LAMBDA r : \A i \in 1..Len(before) : before[i].id # r.id)
       IN /\ \A i \in 1..Len(before) : RowsOf(after, before[i].id) = <<before[i]>>
          /\ Len(after) = Len(before) + Len(new)
          /\ hist'.inserted = Len(new)
          /\ \A i \in 1..Len(entries) :
               ValidEntry(entries[i]) =>
                 IF SameEntry(before, entries[i]) # <<>>
                 THEN SameEntry(new, entries[i]) = <<>>
                 ELSE /\ Len(SameEntry(new, entries[i])) = 1
                      /\ SameEntry(new, entries[i])[1].word =
                           Trim(FirstLike(entries, entries[i]).word)
                      /\ SameEntry(new, entries[i])[1].meaning =
                           Trim(FirstLike(entries, entries[i]).meaning)
          /\ \A i \in 1..Len(new) :
               \E j \in 1..Len(entries) :
                  ValidEntry(entries[j]) /\ SameEntry(<<new[i]>>, entries[j]) # <<>>
          /\ entries \in hist.imported => hist'.inserted = 0 /\ new = <<>>]_vars

\* the second import of the same array of three entries has completed and
\* reports that it inserted nothing; the first had inserted "b" only
C17_Witness ==
  /\ hist.op = "importDone"
  /\ hist.inserted = 0
  /\ wordsVersion = 3
  /\ Cardinality(hist.imported) = 1
  /\ \E entries \in hist.imported : Len(entries) = 3
  /\ Len(words) = 2
  /\ words[2].word = <<"b">>

\* C18: importBackup given text that is not JSON, or JSON that is not an
\* array, reports a message ("Invalid JSON file." or "Backup format must be a
\* JSON array.") and leaves the store and its key generator, the queue of
\* transactions, state.words, state.wordsVersion, the rest of the view and
\* the backup timers as they are; given an array it is not rejected.
C18_MalformedRejected ==
  [][hist'.op \in {"import", "importRejected"} =>
       \A payload \in ImportPayloads :
         ImportBackup(payload) =>
           IF payload.kind = "array"
           THEN hist'.op = "import"
           ELSE /\ hist'.op = "importRejected"
                /\ hist'.reason = IF payload.kind = "notJSON"
                                  THEN "Invalid JSON file."
                                  ELSE "Backup format must be a JSON array."
                /\ UNCHANGED <<store, nextId, txq, viewVars, timers>>]_vars

\* after an import that inserted a row, a file holding a JSON object was
\* chosen and rejected; the two records are still there
C18_Witness ==
  /\ hist.op = "importRejected"
  /\ hist.reason = "Backup format must be a JSON array."
  /\ wordsVersion = 2
  /\ Len(words) = 2
  /\ Cardinality(store) = 2
  /\ txq = <<>>

(***************************************************************************)
(* Properties of storage errors.                                           *)
(***************************************************************************)
\* C19: when the store write of a save, a delete or an answer fails, the
\* handler's promise rejects and nothing else changes: the store,
\* state.words, state.wordsVersion, the current page and the rest of the
\* view, the review pool and the backup timers are as before; after a failed
\* answer the record that was answered is still the head of the pool.
C19_FailureLeavesState ==
  [][hist'.op \in {"saveFailed", "deleteFailed", "answerFailed"} =>
       /\ UNCHANGED <<store, nextId, viewVars, reviewVars, timers>>
       /\ hist'.reason \in {"console.error", "unhandled rejection"}
       /\ hist'.op = "answerFailed" =>
            /\ reviewPool' # <<>>
            /\ reviewPool'[1] = Head(txq).current]_vars

\* the put of an answer failed after an earlier answer had gone through: the
\* pool still holds its record, the store holds that record as it was, and
\* the only timer armed is the one of the earlier answer
C19_Witness ==
  /\ hist.op = "answerFailed"
  /\ reviewPool # <<>>
  /\ Len(hist.answered) = 1
  /\ \E r \in store : r = reviewPool[1]
  /\ timers = {[reason |-> "review", cur |-> TRUE]}

\* C20 as stated: when a store write fails during an import, the import is
\* reported failed and the store holds none of the rows that import had
\* inserted.
C20_NoPartialImport ==
  [][hist'.op = "importFailed" =>
       /\ hist'.reason = "Import failed."
       /\ \A r \in store' : r.id \notin Head(txq).added]_vars


\* an interval the normalizer accepts whose double reaches past the range of
\* Date
LongInterval == MaxDateValue \div DayLen

\* stores found at load time: a legacy row, a row with a long interval, two
\* rows of the current format
ScheduleStores ==
  {{LegacyRow},
   {Row(1, <<"a">>, <<"m">>, 1, 1, LongInterval, 1, 1)},
   {ReviewedRow, Row(2, <<"b">>, <<"m">>, 1, 0, 1, 1, 0)}}

\* backup files whose entries lack fields, hold invalid ones, or hold a long
\* interval
SchedulePayloads ==
  {Payload("array", <<Entry(<<"c">>, <<"m">>, NotFinite, NotFinite, NotFinite,
                            NotFinite, NotFinite)>>),
   Payload("array", <<Entry(<<"d">>, <<"m">>, 0, -1, LongInterval, -1, -1)>>)}

InitSchedule == InitWith(ScheduleStores, {FALSE})

\* deletes, answers and imports, each begun after the one before completed,
\* and starts of a review session at any time, while the clock advances, in
\* a profile without a backup file; the review pool is taken in the order of
\* state.words
SpecSchedule ==
  /\ InitSchedule
  /\ [][\/ /\ txq = <<>>
           /\ nextId <= MaxStored
           /\ \/ \E i \in 1..MaxRecords : DeleteWord(i)
              \/ \E k \in BOOLEAN : ReviewStep(k)
              \/ \E payload \in SchedulePayloads : ImportBackup(payload)
        \/ StartReviewMode(getDueWords(words, now))
        \/ DeleteWordDone
        \/ PutWordDone
        \/ ImportAddDone
        \/ NextLoad
        \/ Tick]_vars

\* a profile whose appMeta holds a linked backup file
InitMirror == InitWith({{ReviewedRow}}, {TRUE})

\* the backup requests a run still has to make room for: the startup backup
\* of init and the debounced backup of every edit that can still complete
RequestsToCome ==
  (IF initPc \in {"reload", "getMeta"} THEN 1 ELSE 0)
    + Max(0, MaxBackupEdits + 1 - Max(wordsVersion, 1))

\* what the backup file holds is state.words
Mirrored == file.written /\ file.data = asBackupArray(words, now)

\* the steps the event loop runs without the user: completions of store
\* transactions, the debounce timer, resolutions of the permission query and
\* of the writes to the file
ScheduledStep ==
  \/ AddWordDone
  \/ DeleteWordDone
  \/ GetAllDone
  \/ GetMetaDone
  \/ RegisterSWDone
  \/ \E t \in timers : TimerFire(t)
  \/ \E i \in TaskIds : QueryPermissionDone(i, "granted")
  \/ \E i \in 1..MaxTasks : WriterStep(i)

\* the backup synchronizer with a linked file whose permission is granted and
\* whose writes succeed: edits one at a time, the page going hidden while the
\* run has a request to spare; the event loop keeps running the scheduled
\* steps while there is one
SpecMirror ==
  /\ InitMirror
  /\ [][\/ EditsUpTo(MaxBackupEdits)
        \/ AddWordDone
        \/ DeleteWordDone
        \/ GetAllDone
        \/ GetMetaDone
        \/ RegisterSWDone
        \/ \E t \in timers : TimerFire(t)
        \/ /\ hist.nReq + 1 + RequestsToCome <= MaxRequests
           /\ Teardown("visibilitychange")
        \/ \E i \in TaskIds : QueryPermissionDone(i, "granted")
        \/ \E i \in 1..MaxTasks : WriterStep(i)]_vars
  /\ WF_vars(ScheduledStep)

(***************************************************************************)
(* Properties of overlapping answers, of the normalizer, of deletes and    *)
(* of the due predicate.                                                   *)
(***************************************************************************)
\* the puts of the record of this id that have not completed
PendingPuts(id) ==
  {k \in 1..Len(txq) : txq[k].kind = "put" /\ txq[k].row.id = id}

\* C21 as stated: an answer given through the enabled buttons of the open
\* review screen starts no put for a record whose previous put has not
\* completed, and the record that leaves the pool when a put completes is
\* the record that put stored.
C21_NoOverlappingAnswers ==
  [][/\ hist'.op = "answer" /\ buttonsEnabled /\ reviewOpen =>
          PendingPuts(reviewPool[1].id) = {}
     /\ hist'.op = "answerDone" /\ reviewPool # <<>> =>
          Head(reviewPool).id = Head(txq).row.id]_vars


\* the scheduling invariants of a record
Scheduled(r) ==
  /\ IsFinite(r.createdAt) /\ r.createdAt > 0
  /\ IsFinite(r.reviewCount) /\ r.reviewCount >= 0
  /\ IsFinite(r.interval) /\ r.interval >= 1
  /\ IsFinite(r.nextReviewAt) /\ r.nextReviewAt > 0
  /\ IsFinite(r.lastReviewedAt) /\ r.lastReviewedAt >= 0

\* C22 as stated: every record of state.words satisfies createdAt > 0,
\* reviewCount >= 0, interval >= 1, nextReviewAt > 0 and lastReviewedAt >= 0.
C22_WordsScheduled ==
  \A i \in 1..Len(words) : Scheduled(words[i])


\* the ids of the rows of the store
StoreIds(S) == {r.id : r \in S}

\* C23 as stated: no step other than the completion of an add (of a save or
\* of an import) brings an id into the store, so a deleted record stays
\* deleted; and whenever no operation is in progress, state.words and the
\* store hold the same ids.
C23_DeletedStaysDeleted ==
  [][/\ hist'.op \notin {"added", "imported"} => StoreIds(store') \subseteq StoreIds(store)
     /\ txq' = <<>> => {words'[i].id : i \in 1..Len(words')} = StoreIds(store')]_vars


\* the rows of ws whose last answer was given on the calendar day of t
AnsweredOnDayOf(ws, t) ==
  SelectSeq(ws, LAMBDA r : IsFinite(r.lastReviewedAt) /\ r.lastReviewedAt > 0
                           /\ StartOfDay(r.lastReviewedAt) = StartOfDay(t))

\* C24 as stated: when an answer completes, the nextReviewAt of the answered
\* record is a local midnight later than the answer time, so at the answer
\* time the record is not due and the number of due records is one less;
\* and a review session started later holds no record answered on that
\* calendar day.
C24_AnsweredNotDue ==
  [][/\ hist'.op = "answerDone" =>
          LET tx == Head(txq)
          IN /\ IsFinite(tx.row.nextReviewAt)
             /\ tx.row.nextReviewAt > tx.at
             /\ StartOfDay(tx.row.nextReviewAt) = tx.row.nextReviewAt
             /\ getDueWords(<<tx.row>>, tx.at) = <<>>
             /\ Len(getDueWords(words', tx.at)) = Len(getDueWords(words, tx.at)) - 1
     /\ hist'.op = "startReview" => AnsweredOnDayOf(reviewPool', now') = <<>>]_vars


\* C25: with a linked backup file whose permission stays granted and whose
\* writes succeed, from some point on the file holds the in-memory record
\* set for good: after the last edit a write completes whose content is the
\* final state.words, whatever the order of timer fires, writes in flight,
\* pending requests and visibility-hidden signals.
C25_EventuallyMirrored == <>[](backupHandle /\ Mirrored)

\* the run made all its requests (startup, the debounce timer of a save or a
\* delete, a visibility-hidden signal), and the last write put the edited
\* record set in the file
C25_Witness ==
  /\ hist.op = "writeDone"
  /\ hist.nReq = MaxRequests
  /\ wordsVersion = MaxBackupEdits + 1
  /\ Mirrored
  /\ writers = <<>>

====
